---- MODULE Spec2Model ----
(***************************************************************************)
(* HttpRequester (src/HttpRequester.js): delivery of a payload to one of   *)
(* several receivers with bounded retries, exponential backoff and a       *)
(* ledger table (http_attempts) of the sequences that have failed.         *)
(*                                                                         *)
(* Every startRequest call is one delivery sequence.  The store is reached *)
(* through a connection pool: a statement that was issued is in flight     *)
(* until the store answers it, and statements that are in flight together  *)
(* are answered in any order.  insertAttemptRecord and abandonAttemptRecord*)
(* are called without await, deleteAttemptRecord is awaited.               *)
(***************************************************************************)
EXTENDS Integers, Sequences, FiniteSets, TLC

\* ------------------------------------------------------------------ bounds
\* largest maxAttempts / number of receivers / number of startRequest calls
MaxAttemptsBound == 3
MaxReceivers == 2
MaxCalls == 2
\* largest maxAttempts of the single-call backoff specification
MaxBackoffAttempts == 23

NULL == "null"

Calls == 1..MaxCalls

\* The failures axios.post rejects with: an HTTP error status (error.response
\* is set) or a transport error (only error.code is set).
Errors ==
    { [response |-> "503", code |-> "ERR_BAD_RESPONSE"],
      [response |-> NULL, code |-> "ECONNABORTED"] }

\* No error: the error field of a post that was answered.
NoError == [response |-> NULL, code |-> NULL]

\* The error mysql2's execute rejects with.
DbError == [response |-> NULL, code |-> "ER_STORE"]

Payloads == {"p1"}

VARIABLES
    maxAttempts,    \* this.config.maxAttempts
    receiversUrl,   \* this.config.receiversUrl, a list of distinct urls
    ncalls,         \* how many startRequest calls the application makes
    pc,             \* per call: idle, post, sleep, deleting, done
    attempt,        \* per call: the attempt parameter of the current frame
    uniqueKey,      \* per call: the uniqueKey parameter / local
    payload,        \* per call: the payload
    i,              \* per call: sendRequest's loop index (1-based)
    store,          \* the rows of http_attempts
    nextId,         \* AUTO_INCREMENT of http_attempts.id
    inflight,       \* statements issued to the pool and not yet answered
    outcome,        \* per call: startRequest's promise
    term,           \* per call: none, Succeeded, Abandoned
    \* ---- history
    contacted,      \* per call: the posts of the current sendRequest
    sendResult,     \* per call: what the last finished sendRequest did
    dispatches,     \* per call: the finished sendRequest calls
    delays,         \* per call: the backoff timers that were started
    issued,         \* per call: the ledger statements issued
    dbFailed,       \* per call: some statement of the call was rejected
    rejected,       \* ledger helpers whose promise rejected
    \* ---- checkPendingRequests (the recovery scan)
    nscans,         \* how many checkPendingRequests calls are made (0 or 1)
    scanPc,         \* idle, selecting, post, sleep, deleting, done
    scanRows,       \* const [rows]: the rows the SELECT returned, in order
    scanRow,        \* index in scanRows of the row being resumed
    retryAttempt,   \* the attempt parameter of the current retryHttpRequest frame
    retryI,         \* sendRequest's loop index (1-based) in retryHttpRequest
    \* ---- history of the scan
    resumed,        \* the rows handed to retryHttpRequest, in order
    retryLog,       \* the finished sendRequest calls of retryHttpRequest
    retryEnded,     \* per resumed row: how its retryHttpRequest ended
    scanDeletes,    \* the request ids the scan issued a delete for
    scanDeleted     \* the request ids whose delete of the scan was executed

vars == << maxAttempts, receiversUrl, ncalls, pc, attempt, uniqueKey, payload, i,
           store, nextId, inflight, outcome, term, contacted, sendResult,
           dispatches, delays, issued, dbFailed, rejected,
           nscans, scanPc, scanRows, scanRow, retryAttempt, retryI, resumed, retryLog,
           retryEnded, scanDeletes, scanDeleted >>

scanVars == << scanPc, scanRows, scanRow, retryAttempt, retryI, resumed, retryLog,
               retryEnded, scanDeletes, scanDeleted >>

seqVars == << pc, attempt, uniqueKey, payload, i, outcome, term, contacted,
              sendResult, dispatches, delays, issued >>

\* ------------------------------------------------------------- pure parts

\* Mutant of generateUUID: every call returns the same key.
generateUUID_Constant(s) == "uuid-" \o ToString(0)

\* generateUUID(): a random version-4 UUID; two calls do not return the same
\* key, so the key is named after the call that generated it.
generateUUID(s) == "uuid-" \o ToString(s)

\* The statusCode of the catch block of makeHttpRequest.
StatusCode(error) ==
    IF error.response # NULL THEN error.response
    ELSE IF error.code # NULL THEN error.code ELSE NULL

RECURSIVE Pow2(_)
Pow2(n) == IF n = 0 THEN 1 ELSE 2 * Pow2(n - 1)

\* const delay = Math.pow(2, attempt) * 1000.  The model's integers are 32 bits
\* wide and 2^22 * 1000 is not, so the delay is kept as its number of seconds,
\* Math.pow(2, attempt), and the factor 1000 is applied by sleep.
Delay(n) == Pow2(n)

\* sleep(ms) is setTimeout(resolve, ms), for ms = seconds * 1000; the result is
\* the time in ms the timer runs.  The timer keeps its delay in a signed 32-bit
\* integer: a delay above TIMEOUT_MAX = 2^31 - 1 ms (or below 1) is set to 1 ms.
\* seconds * 1000 > TIMEOUT_MAX iff seconds > TIMEOUT_MAX \div 1000.
TIMEOUT_MAX == 2147483647
sleep(seconds) ==
    IF seconds > TIMEOUT_MAX \div 1000 \/ seconds < 1 THEN 1 ELSE seconds * 1000

\* JSON.stringify(payload), the text stored in the payload column.
Stringify(p) == "json(" \o p \o ")"

RECURSIVE SumSeq(_)
SumSeq(q) == IF q = << >> THEN 0 ELSE Head(q) + SumSeq(Tail(q))

\* ------------------------------------------------------------ the ledger

\* Mutant of InsertStatement: the record stores the number of the attempt that
\* comes next.
InsertStatement_NextAttempt(s, request_id, n, error, p, abandoned) ==
    [ op |-> "insert", seq |-> s, request_id |-> request_id, attempt_number |-> n + 1,
      error |-> error, payload |-> Stringify(p), abandoned |-> abandoned ]

\* The statement insertAttemptRecord passes to connection.execute.
InsertStatement(s, request_id, n, error, p, abandoned) ==
    [ op |-> "insert", seq |-> s, request_id |-> request_id, attempt_number |-> n,
      error |-> error, payload |-> Stringify(p), abandoned |-> abandoned ]

\* Mutant of AbandonStatement: the record stores the attempts that are left
\* (maxAttempts - n) instead of the attempts made.
AbandonStatement_AttemptsLeft(s, request_id, n, error) ==
    [ op |-> "abandon", seq |-> s, request_id |-> request_id,
      attempt_number |-> maxAttempts - n,
      error |-> error, payload |-> NULL, abandoned |-> 1 ]

\* The statement abandonAttemptRecord passes to connection.execute.
AbandonStatement(s, request_id, n, error) ==
    [ op |-> "abandon", seq |-> s, request_id |-> request_id, attempt_number |-> n,
      error |-> error, payload |-> NULL, abandoned |-> 1 ]

\* The statement deleteAttemptRecord passes to connection.execute.
DeleteStatement(s, request_id) ==
    [ op |-> "delete", seq |-> s, request_id |-> request_id, attempt_number |-> 0,
      error |-> NULL, payload |-> NULL, abandoned |-> 0 ]

\* What the store does with a statement it executes: INSERT adds a row under the
\* next id (request_id is no key of the table), UPDATE and DELETE act on every
\* row WHERE request_id = ?.
Execute(rows, o, id) ==
    CASE o.op = "insert" ->
            rows \cup { [ id |-> id, request_id |-> o.request_id,
                          attempt_number |-> o.attempt_number, error |-> o.error,
                          payload |-> o.payload, abandoned |-> o.abandoned ] }
      [] o.op = "abandon" ->
            { IF r.request_id = o.request_id
                THEN [ r EXCEPT !.abandoned = 1, !.attempt_number = o.attempt_number,
                                !.error = o.error ]
                ELSE r : r \in rows }
      [] o.op = "delete" ->
            { r \in rows : r.request_id # o.request_id }

\* Mutant of ExhaustedStatement: the insert of the exhausted branch without its
\* fifth argument, so that abandoned takes its default 0.
ExhaustedStatement_DefaultFlag(s, key, n, statusCode, p) ==
    IF n = 1
      THEN InsertStatement(s, key, n, statusCode, p, 0)
      ELSE AbandonStatement(s, key, n, statusCode)

\* The else branch of makeHttpRequest's catch (attempt >= maxAttempts): insert
\* a record flagged abandoned at attempt 1, mark the record abandoned otherwise.
ExhaustedStatement(s, key, n, statusCode, p) ==
    IF n = 1
      THEN InsertStatement(s, key, n, statusCode, p, 1)
      ELSE AbandonStatement(s, key, n, statusCode)

\* Mutant of HelperSettle: a helper without its try/catch, which rejects when
\* execute rejects.
HelperSettle_NoCatch(op, answer) ==
    IF answer = "error" THEN "rejected" ELSE "resolved"

\* The promise of insertAttemptRecord / abandonAttemptRecord / deleteAttemptRecord
\* once execute has answered (ok) or rejected (error): the try/catch of each
\* helper logs the error and the helper resolves.
HelperSettle(op, answer) == "resolved"

\* Mutant of startRequestSettle: a startRequest that hands a makeHttpRequest
\* that threw, or a payload that was not delivered, to its caller as a rejection.
startRequestSettle_Rethrow(r) ==
    IF r.ended = "threw" \/ ~r.delivered THEN "rejected" ELSE "resolved"

\* startRequest: await makeHttpRequest inside try/catch; r is how makeHttpRequest
\* ended (returned or threw) and whether the payload was delivered.
startRequestSettle(r) == "resolved"

\* Mutant of DeletesOnSuccess: the record is deleted after every success.
DeletesOnSuccess_Always(n, key) == TRUE

\* makeHttpRequest line 177: the record is deleted after a success
\* only if (attempt > 1 && uniqueKey); deleteAttemptRecord repeats if (uniqueKey).
DeletesOnSuccess(n, key) == n > 1 /\ key # NULL /\ key # NULL

\* ------------------------------------------------------------------- Init

\* The state after construction, before any startRequest call: the store is
\* empty and nothing is in flight.
InitRest ==
    /\ pc = [ s \in Calls |-> "idle" ]
    /\ attempt = [ s \in Calls |-> 1 ]
    /\ uniqueKey = [ s \in Calls |-> NULL ]
    /\ payload = [ s \in Calls |-> NULL ]
    /\ i = [ s \in Calls |-> 1 ]
    /\ store = {}
    /\ nextId = 1
    /\ inflight = {}
    /\ outcome = [ s \in Calls |-> "pending" ]
    /\ term = [ s \in Calls |-> "none" ]
    /\ contacted = [ s \in Calls |-> << >> ]
    /\ sendResult = [ s \in Calls |-> [ kind |-> "none", url |-> 0, error |-> NoError ] ]
    /\ dispatches = [ s \in Calls |-> << >> ]
    /\ delays = [ s \in Calls |-> << >> ]
    /\ issued = [ s \in Calls |-> << >> ]
    /\ dbFailed = [ s \in Calls |-> FALSE ]
    /\ rejected = {}
    /\ scanPc = "idle"
    /\ scanRows = << >>
    /\ scanRow = 0
    /\ retryAttempt = 0
    /\ retryI = 1
    /\ resumed = << >>
    /\ retryLog = << >>
    /\ retryEnded = << >>
    /\ scanDeletes = {}
    /\ scanDeleted = {}

\* The configurations checked: one call with up to MaxAttemptsBound attempts and
\* up to MaxReceivers receivers, or up to MaxCalls concurrent calls with one
\* receiver and at most two attempts (every ledger statement is issued with two).
\* checkPendingRequests is called at most once, with one or two calls.
Init ==
    /\ ncalls \in 1..MaxCalls
    /\ maxAttempts \in 1..MaxAttemptsBound
    /\ \E n \in 1..MaxReceivers : receiversUrl = [ k \in 1..n |-> k ]
    /\ ncalls > 1 => maxAttempts <= 2 /\ Len(receiversUrl) = 1
    /\ nscans \in 0..1
    /\ nscans > 0 => ncalls <= 2
    /\ InitRest

\* One call, one receiver, up to MaxBackoffAttempts attempts: the whole backoff
\* schedule.
InitBackoff ==
    /\ ncalls = 1
    /\ maxAttempts \in 1..MaxBackoffAttempts
    /\ receiversUrl = [ k \in 1..1 |-> k ]
    /\ nscans \in 0..1
    /\ nscans > 0 => maxAttempts <= 2
    /\ InitRest

\* ---------------------------------------------------------------- actions

\* startRequest(payload) -> makeHttpRequest(payload) -> sendRequest(payload):
\* the first post is on its way.
startRequest(s, p) ==
    /\ s <= ncalls
    /\ pc[s] = "idle"
    /\ pc' = [ pc EXCEPT ![s] = "post" ]
    /\ payload' = [ payload EXCEPT ![s] = p ]
    /\ UNCHANGED << nscans, scanVars, maxAttempts, receiversUrl, ncalls, attempt, uniqueKey, i, store,
                    nextId, inflight, outcome, term, contacted, sendResult,
                    dispatches, delays, issued, dbFailed, rejected >>

\* Mutant of Retries: one more attempt is made after attempt maxAttempts.
Retries_OneMore(n, max) == n <= max

\* makeHttpRequest line 189: another attempt follows attempt n.
Retries(n, max) == n < max

\* Mutant of InsertsRecord: every failed attempt that is retried inserts.
InsertsRecord_EveryAttempt(n) == n >= 1

\* makeHttpRequest line 190: a retried attempt inserts the record when it is
\* the first.
InsertsRecord(n) == n = 1

\* The catch block of makeHttpRequest for the failure `error` of attempt
\* attempt[s], up to its await of sleep (attempt < maxAttempts) or to its end.
\* `pending` is the set of statements in flight when the block is entered.
makeHttpRequestCatch(s, error, pending) ==
    LET statusCode == StatusCode(error)
        key == IF uniqueKey[s] = NULL THEN generateUUID(s) ELSE uniqueKey[s]
        n == attempt[s]
    IN  /\ uniqueKey' = [ uniqueKey EXCEPT ![s] = key ]
        /\ IF Retries(n, maxAttempts)
             THEN /\ LET stmts == IF InsertsRecord(n)
                                    THEN { InsertStatement(s, key, n, statusCode, payload[s], 0) }
                                    ELSE {}
                     IN  /\ inflight' = pending \cup stmts
                         /\ issued' = [ issued EXCEPT ![s] =
                                          IF InsertsRecord(n) THEN Append(@, "insert")
                                                              ELSE @ ]
                  /\ delays' = [ delays EXCEPT ![s] = Append(@, sleep(Delay(n))) ]
                  /\ pc' = [ pc EXCEPT ![s] = "sleep" ]
                  /\ UNCHANGED << term, outcome >>
             ELSE /\ inflight' = pending \cup
                        { ExhaustedStatement(s, key, n, statusCode, payload[s]) }
                  /\ issued' = [ issued EXCEPT ![s] =
                        Append(@, ExhaustedStatement(s, key, n, statusCode, payload[s]).op) ]
                  /\ term' = [ term EXCEPT ![s] =
                                 IF @ = "none" THEN "Abandoned" ELSE "both" ]
                  /\ pc' = [ pc EXCEPT ![s] = "done" ]
                  /\ outcome' = [ outcome EXCEPT ![s] =
                        startRequestSettle([ ended |-> "returned", delivered |-> FALSE ]) ]
                  /\ UNCHANGED delays

\* Mutant of PostSucceeds: sendRequest posts to every receiver (a broadcast) and
\* returns the response of the last one.
PostSucceeds_Broadcast(s) ==
    /\ pc[s] = "post"
    /\ LET url == receiversUrl[i[s]]
       IN  /\ contacted' = [ contacted EXCEPT ![s] =
                                Append(@, [ url |-> url, ok |-> TRUE, error |-> NoError ]) ]
           /\ IF i[s] < Len(receiversUrl)
                THEN /\ i' = [ i EXCEPT ![s] = @ + 1 ]
                     /\ UNCHANGED << sendResult, dispatches, term, pc, outcome, inflight, issued >>
                ELSE /\ sendResult' = [ sendResult EXCEPT ![s] =
                            [ kind |-> "response", url |-> url, error |-> NoError ] ]
                     /\ dispatches' = [ dispatches EXCEPT ![s] =
                            Append(@, [ attempt |-> attempt[s], ok |-> TRUE ]) ]
                     /\ term' = [ term EXCEPT ![s] = IF @ = "none" THEN "Succeeded" ELSE "both" ]
                     /\ IF DeletesOnSuccess(attempt[s], uniqueKey[s])
                          THEN /\ inflight' = inflight \cup { DeleteStatement(s, uniqueKey[s]) }
                               /\ issued' = [ issued EXCEPT ![s] = Append(@, "delete") ]
                               /\ pc' = [ pc EXCEPT ![s] = "deleting" ]
                               /\ UNCHANGED outcome
                          ELSE /\ pc' = [ pc EXCEPT ![s] = "done" ]
                               /\ outcome' = [ outcome EXCEPT ![s] =
                                     startRequestSettle([ ended |-> "returned", delivered |-> TRUE ]) ]
                               /\ UNCHANGED << inflight, issued >>
                     /\ UNCHANGED i
    /\ UNCHANGED << nscans, scanVars, maxAttempts, receiversUrl, ncalls, attempt, uniqueKey, payload,
                    store, nextId, delays, dbFailed, rejected >>

\* axios.post to receiversUrl[i] answers: sendRequest returns the response and
\* makeHttpRequest runs its success branch.
PostSucceeds(s) ==
    /\ pc[s] = "post"
    /\ LET url == receiversUrl[i[s]]
       IN  /\ contacted' = [ contacted EXCEPT ![s] = Append(@, [ url |-> url, ok |-> TRUE, error |-> NoError ]) ]
           /\ sendResult' = [ sendResult EXCEPT ![s] = [ kind |-> "response", url |-> url, error |-> NoError ] ]
    /\ dispatches' = [ dispatches EXCEPT ![s] = Append(@, [ attempt |-> attempt[s], ok |-> TRUE ]) ]
    /\ term' = [ term EXCEPT ![s] = IF @ = "none" THEN "Succeeded" ELSE "both" ]
    /\ IF DeletesOnSuccess(attempt[s], uniqueKey[s])
         THEN /\ inflight' = inflight \cup { DeleteStatement(s, uniqueKey[s]) }
              /\ issued' = [ issued EXCEPT ![s] = Append(@, "delete") ]
              /\ pc' = [ pc EXCEPT ![s] = "deleting" ]
              /\ UNCHANGED outcome
         ELSE /\ pc' = [ pc EXCEPT ![s] = "done" ]
              /\ outcome' = [ outcome EXCEPT ![s] =
                    startRequestSettle([ ended |-> "returned", delivered |-> TRUE ]) ]
              /\ UNCHANGED << inflight, issued >>
    /\ UNCHANGED << nscans, scanVars, maxAttempts, receiversUrl, ncalls, attempt, uniqueKey, payload, i,
                    store, nextId, delays, dbFailed, rejected >>

\* Mutant of PostFails: when the last receiver fails, sendRequest throws the
\* failure of the first receiver it tried.
PostFails_ThrowsFirst(s, error) ==
    /\ pc[s] = "post"
    /\ LET url == receiversUrl[i[s]]
           first == Append(contacted[s], [ url |-> url, ok |-> FALSE, error |-> error ])[1]
       IN  /\ contacted' = [ contacted EXCEPT ![s] = Append(@, [ url |-> url, ok |-> FALSE, error |-> error ]) ]
           /\ IF i[s] = Len(receiversUrl)
                THEN /\ sendResult' = [ sendResult EXCEPT ![s] =
                                          [ kind |-> "error", url |-> first.url, error |-> first.error ] ]
                     /\ dispatches' = [ dispatches EXCEPT ![s] =
                                          Append(@, [ attempt |-> attempt[s], ok |-> FALSE ]) ]
                     /\ makeHttpRequestCatch(s, first.error, inflight)
                     /\ UNCHANGED i
                ELSE /\ i' = [ i EXCEPT ![s] = @ + 1 ]
                     /\ UNCHANGED << sendResult, dispatches, uniqueKey, inflight, issued,
                                     delays, pc, term, outcome >>
    /\ UNCHANGED << nscans, scanVars, maxAttempts, receiversUrl, ncalls, attempt, payload, store, nextId,
                    dbFailed, rejected >>

\* axios.post to receiversUrl[i] fails with `error`: sendRequest goes on to the
\* next receiver, or throws the error of the last one into makeHttpRequest's catch.
PostFails(s, error) ==
    /\ pc[s] = "post"
    /\ LET url == receiversUrl[i[s]]
       IN  /\ contacted' = [ contacted EXCEPT ![s] = Append(@, [ url |-> url, ok |-> FALSE, error |-> error ]) ]
           /\ IF i[s] = Len(receiversUrl)
                THEN /\ sendResult' = [ sendResult EXCEPT ![s] =
                                          [ kind |-> "error", url |-> url, error |-> error ] ]
                     /\ dispatches' = [ dispatches EXCEPT ![s] =
                                          Append(@, [ attempt |-> attempt[s], ok |-> FALSE ]) ]
                     /\ makeHttpRequestCatch(s, error, inflight)
                     /\ UNCHANGED i
                ELSE /\ i' = [ i EXCEPT ![s] = @ + 1 ]
                     /\ UNCHANGED << sendResult, dispatches, uniqueKey, inflight, issued,
                                     delays, pc, term, outcome >>
    /\ UNCHANGED << nscans, scanVars, maxAttempts, receiversUrl, ncalls, attempt, payload, store, nextId,
                    dbFailed, rejected >>

\* Mutant of SleepElapses: a sleep whose promise is never resolved.
SleepElapses_NeverResolves(s) ==
    /\ pc[s] = "sleep"
    /\ FALSE
    /\ UNCHANGED vars

\* The backoff timer fires: makeHttpRequest(payload, attempt + 1, uniqueKey).
SleepElapses(s) ==
    /\ pc[s] = "sleep"
    /\ attempt' = [ attempt EXCEPT ![s] = @ + 1 ]
    /\ i' = [ i EXCEPT ![s] = 1 ]
    /\ contacted' = [ contacted EXCEPT ![s] = << >> ]
    /\ pc' = [ pc EXCEPT ![s] = "post" ]
    /\ UNCHANGED << nscans, scanVars, maxAttempts, receiversUrl, ncalls, uniqueKey, payload, store, nextId,
                    inflight, outcome, term, sendResult, dispatches, delays, issued,
                    dbFailed, rejected >>

\* The store answers a statement that is in flight: it executes it (ok) or
\* rejects it (error).  The helper that issued it settles; a delete is awaited by
\* makeHttpRequest inside its try block, which then goes on.
StoreAnswers(o, answer) ==
    /\ o \in inflight
    /\ o.seq \in Calls
    /\ store' = IF answer = "ok" THEN Execute(store, o, nextId) ELSE store
    /\ nextId' = IF answer = "ok" /\ o.op = "insert" THEN nextId + 1 ELSE nextId
    /\ dbFailed' = [ dbFailed EXCEPT ![o.seq] = @ \/ answer = "error" ]
    /\ rejected' = IF HelperSettle(o.op, answer) = "rejected"
                     THEN rejected \cup { o } ELSE rejected
    /\ IF o.op = "delete"
         THEN IF HelperSettle(o.op, answer) = "rejected"
                THEN /\ makeHttpRequestCatch(o.seq, DbError, inflight \ { o })
                     /\ UNCHANGED << attempt, payload, i, contacted, sendResult, dispatches >>
                ELSE /\ inflight' = inflight \ { o }
                     /\ pc' = [ pc EXCEPT ![o.seq] = "done" ]
                     /\ outcome' = [ outcome EXCEPT ![o.seq] =
                           startRequestSettle([ ended |-> "returned", delivered |-> TRUE ]) ]
                     /\ UNCHANGED << attempt, uniqueKey, payload, i, term, contacted,
                                     sendResult, dispatches, delays, issued >>
         ELSE /\ inflight' = inflight \ { o }
              /\ UNCHANGED seqVars
    /\ UNCHANGED << nscans, scanVars, maxAttempts, receiversUrl, ncalls >>

\* ------------------------------------------------- checkPendingRequests

\* The seq of the statements the scan issues (the calls are 1, 2, ...).
Scan == 0

\* JSON.parse(payload) of a payload column written by insertAttemptRecord.
Parse(text) == CHOOSE p \in Payloads : Stringify(p) = text

\* The rows of SELECT * FROM http_attempts: every row of the table, the
\* abandoned ones too, in the order of the primary key id.
RECURSIVE Listing(_)
Listing(table) ==
    IF table = {} THEN << >>
    ELSE LET first == CHOOSE r \in table : \A q \in table : r.id <= q.id
         IN  << first >> \o Listing(table \ { first })

\* Mutant of RetryDeletesOnSuccess: the condition of makeHttpRequest, which
\* deletes only after a success at attempt > 1.
RetryDeletesOnSuccess_AfterFirst(n, key) == n > 1 /\ key # NULL

\* retryHttpRequest line 231: the record is deleted after every success;
\* deleteAttemptRecord issues the DELETE if (uniqueKey).
RetryDeletesOnSuccess(n, key) == key # NULL

\* How retryHttpRequest ends when attempt >= maxAttempts (lines 243-245): the
\* message of console.error reads recordId, which is declared nowhere, so the
\* else branch throws a ReferenceError; abandonAttemptRecord is not called.
RetryExhausted == "threw"

\* The for loop of checkPendingRequests takes row k of the listing rs:
\* retryHttpRequest(request_id, attempt_number, JSON.parse(payload)) posts to
\* the first receiver.
BeginRow(rs, k) ==
    /\ scanRow' = k
    /\ resumed' = Append(resumed, [ requestId |-> rs[k].request_id,
                                    attempt |-> rs[k].attempt_number,
                                    payload |-> Parse(rs[k].payload),
                                    abandoned |-> rs[k].abandoned ])
    /\ retryAttempt' = rs[k].attempt_number
    /\ retryI' = 1
    /\ scanPc' = "post"

\* retryHttpRequest has ended as `how`: returned, and the loop goes on with the
\* next row or ends; or threw, into the catch of checkPendingRequests, which
\* logs the error and ends the scan.
EndRow(how) ==
    /\ retryEnded' = Append(retryEnded, how)
    /\ IF how = "returned" /\ scanRow < Len(scanRows)
         THEN BeginRow(scanRows, scanRow + 1)
         ELSE /\ scanPc' = "done"
              /\ UNCHANGED << scanRow, resumed, retryAttempt, retryI >>

\* checkPendingRequests(): the SELECT is on its way.
checkPendingRequests ==
    /\ nscans > 0
    /\ scanPc = "idle"
    /\ scanPc' = "selecting"
    /\ UNCHANGED << maxAttempts, receiversUrl, ncalls, nscans, seqVars, store, nextId,
                    inflight, dbFailed, rejected, scanRows, scanRow, retryAttempt, retryI,
                    resumed, retryLog, retryEnded, scanDeletes, scanDeleted >>

\* The store answers the SELECT with the rows of the table, or rejects it
\* (the catch of checkPendingRequests logs the error).
SelectAnswers(answer) ==
    /\ scanPc = "selecting"
    /\ IF answer = "ok"
         THEN /\ scanRows' = Listing(store)
              /\ IF store = {}
                   THEN /\ scanPc' = "done"
                        /\ UNCHANGED << scanRow, resumed, retryAttempt, retryI >>
                   ELSE BeginRow(Listing(store), 1)
         ELSE /\ scanPc' = "done"
              /\ UNCHANGED << scanRows, scanRow, resumed, retryAttempt, retryI >>
    /\ UNCHANGED << maxAttempts, receiversUrl, ncalls, nscans, seqVars, store, nextId,
                    inflight, dbFailed, rejected, retryLog, retryEnded, scanDeletes,
                    scanDeleted >>

\* In retryHttpRequest, axios.post to receiversUrl[i] answers: sendRequest
\* returns and the record is deleted (awaited).
RetryPostSucceeds ==
    /\ scanPc = "post"
    /\ LET key == scanRows[scanRow].request_id
       IN  /\ retryLog' = Append(retryLog, [ rec |-> scanRow, requestId |-> key,
                                             attempt |-> retryAttempt, ok |-> TRUE ])
           /\ IF RetryDeletesOnSuccess(retryAttempt, key)
                THEN /\ inflight' = inflight \cup { DeleteStatement(Scan, key) }
                     /\ scanDeletes' = scanDeletes \cup { key }
                     /\ scanPc' = "deleting"
                     /\ UNCHANGED << scanRow, resumed, retryAttempt, retryI, retryEnded >>
                ELSE /\ EndRow("returned")
                     /\ UNCHANGED << inflight, scanDeletes >>
    /\ UNCHANGED << maxAttempts, receiversUrl, ncalls, nscans, seqVars, store, nextId,
                    dbFailed, rejected, scanRows, scanDeleted >>

\* In retryHttpRequest, axios.post to receiversUrl[i] fails: sendRequest goes
\* on to the next receiver or throws into the catch of retryHttpRequest, which
\* sleeps before the next attempt (attempt < maxAttempts) or ends.
RetryPostFails(error) ==
    /\ scanPc = "post"
    /\ IF retryI < Len(receiversUrl)
         THEN /\ retryI' = retryI + 1
              /\ UNCHANGED << scanPc, scanRow, resumed, retryAttempt, retryLog, retryEnded >>
         ELSE /\ retryLog' = Append(retryLog, [ rec |-> scanRow,
                                                requestId |-> scanRows[scanRow].request_id,
                                                attempt |-> retryAttempt, ok |-> FALSE ])
              /\ IF retryAttempt < maxAttempts
                   THEN /\ scanPc' = "sleep"
                        /\ UNCHANGED << scanRow, resumed, retryAttempt, retryI, retryEnded >>
                   ELSE EndRow(RetryExhausted)
    /\ UNCHANGED << maxAttempts, receiversUrl, ncalls, nscans, seqVars, store, nextId,
                    inflight, dbFailed, rejected, scanRows, scanDeletes, scanDeleted >>

\* The backoff timer of retryHttpRequest fires:
\* retryHttpRequest(requestId, attempt + 1, payload).
RetrySleepElapses ==
    /\ scanPc = "sleep"
    /\ retryAttempt' = retryAttempt + 1
    /\ retryI' = 1
    /\ scanPc' = "post"
    /\ UNCHANGED << maxAttempts, receiversUrl, ncalls, nscans, seqVars, store, nextId,
                    inflight, dbFailed, rejected, scanRows, scanRow, resumed, retryLog,
                    retryEnded, scanDeletes, scanDeleted >>

\* The store answers the DELETE that retryHttpRequest awaits: it executes it
\* (ok) or rejects it (error, logged by deleteAttemptRecord); retryHttpRequest
\* returns.
ScanStoreAnswers(o, answer) ==
    /\ o \in inflight
    /\ o.seq = Scan
    /\ scanPc = "deleting"
    /\ store' = IF answer = "ok" THEN Execute(store, o, nextId) ELSE store
    /\ inflight' = inflight \ { o }
    /\ scanDeleted' = IF answer = "ok" THEN scanDeleted \cup { o.request_id }
                                        ELSE scanDeleted
    /\ rejected' = IF HelperSettle(o.op, answer) = "rejected"
                     THEN rejected \cup { o } ELSE rejected
    /\ EndRow("returned")
    /\ UNCHANGED << maxAttempts, receiversUrl, ncalls, nscans, seqVars, nextId,
                    dbFailed, scanRows, retryLog, scanDeletes >>

Next ==
    \/ checkPendingRequests
    \/ \E answer \in { "ok", "error" } : SelectAnswers(answer)
    \/ RetryPostSucceeds
    \/ \E error \in Errors : RetryPostFails(error)
    \/ RetrySleepElapses
    \/ \E o \in inflight, answer \in { "ok", "error" } : ScanStoreAnswers(o, answer)
    \/ \E s \in Calls, p \in Payloads : startRequest(s, p)
    \/ \E s \in Calls : PostSucceeds(s)
    \/ \E s \in Calls, error \in Errors : PostFails(s, error)
    \/ \E s \in Calls : SleepElapses(s)
    \/ \E o \in inflight, answer \in { "ok", "error" } : StoreAnswers(o, answer)

Spec == Init /\ [][Next]_vars

SpecBackoff == InitBackoff /\ [][Next]_vars

\* Every transport call returns or fails and every backoff timer fires; nothing
\* is assumed of the application (startRequest) or of the store.
Fairness ==
    \A s \in Calls :
        /\ WF_vars(PostSucceeds(s) \/ \E error \in Errors : PostFails(s, error))
        /\ WF_vars(SleepElapses(s))

\* Termination is checked for one call and for two concurrent calls.
InitLive == Init /\ ncalls <= 2

LiveSpec == InitLive /\ [][Next]_vars /\ Fairness

\* ------------------------------------------------------------ vocabulary

Started(s) == pc[s] # "idle"

\* The statements of call s that are in flight.
StmtsOf(s) == { o \in inflight : o.seq = s }

\* The rows of a request_id.
RowsOf(key) == { r \in store : r.request_id = key }

\* makeHttpRequest has returned, every statement it issued was answered, and
\* none was rejected.
Settled(s) == pc[s] = "done" /\ StmtsOf(s) = {} /\ ~dbFailed[s]

\* How many times statement kind op was issued by call s.
Issued(s, op) == Cardinality({ k \in 1..Len(issued[s]) : issued[s][k] = op })

\* The first k dispatches of s failed.
FirstFailed(s, k) ==
    /\ Len(dispatches[s]) >= k
    /\ \A j \in 1..k : ~dispatches[s][j].ok

Min(a, b) == IF a < b THEN a ELSE b

\* ---------------------------------------------------------------- claims

\* C1: a delivery whose first dispatch succeeds issues no ledger statement at
\* all: nothing of the call is or was in flight, no key was generated and the
\* store holds no row of the call.
C1_FirstSuccessLeavesLedgerAlone ==
    \A s \in Calls :
        (Len(dispatches[s]) >= 1 /\ dispatches[s][1].ok) =>
            /\ issued[s] = << >>
            /\ StmtsOf(s) = {}
            /\ uniqueKey[s] = NULL
            /\ RowsOf(generateUUID(s)) = {}
            /\ \A r \in store : r.request_id # NULL

\* C1 witness: a call has returned after its first dispatch succeeded.
C1_Witness ==
    \E s \in Calls :
        /\ pc[s] = "done"
        /\ dispatches[s] = << [ attempt |-> 1, ok |-> TRUE ] >>

\* C2 (as claimed): a delivery that fails k >= 1 times and then succeeds has
\* issued exactly one insert, and once makeHttpRequest has returned and every
\* statement it issued was executed without error, no row of its requestId is left.
C2_RecordDeletedAfterLateSuccess ==
    \A s \in Calls :
        (term[s] = "Succeeded" /\ Len(dispatches[s]) >= 2 /\ Settled(s)) =>
            /\ Issued(s, "insert") = 1
            /\ RowsOf(uniqueKey[s]) = {}

\* C3 (as claimed): a delivery that fails maxAttempts times ends, once every
\* statement it issued was executed without error, with exactly one row of its
\* requestId, flagged abandoned with attempt_number = maxAttempts (no recovery
\* scan has deleted the record).
C3_AbandonedRecordAfterExhaustion ==
    \A s \in Calls :
        (term[s] = "Abandoned" /\ Settled(s) /\ uniqueKey[s] \notin scanDeleted) =>
            /\ Cardinality(RowsOf(uniqueKey[s])) = 1
            /\ \A r \in RowsOf(uniqueKey[s]) :
                   r.abandoned = 1 /\ r.attempt_number = maxAttempts

\* sendRequest of call s has finished and contacted[s] still lists its posts.
SendFinished(s) == pc[s] \in { "sleep", "deleting", "done" }

C5_RaisesLastFailure ==
    \A s \in Calls :
        (SendFinished(s) /\ sendResult[s].kind = "error") =>
            LET c == contacted[s]
                n == Len(receiversUrl)
            IN  /\ Len(c) = n
                /\ \A k \in 1..n : ~c[k].ok /\ c[k].url = receiversUrl[k]
                /\ sendResult[s].url = receiversUrl[n]
                /\ sendResult[s].error = c[n].error
                /\ ~dispatches[s][Len(dispatches[s])].ok

\* C5 witness: two receivers failed with different errors and sendRequest raised.
C5_Witness ==
    \E s \in Calls :
        /\ SendFinished(s)
        /\ sendResult[s].kind = "error"
        /\ Len(contacted[s]) = 2
        /\ contacted[s][1].error # contacted[s][2].error

\* The backoff timers of call s in whole seconds.
DelaySeconds(s) == [ n \in 1..Len(delays[s]) |-> delays[s][n] \div 1000 ]

\* How many of the dispatches of s failed at an attempt below maxAttempts.
Retried(s) ==
    Cardinality({ k \in 1..Len(dispatches[s]) : ~dispatches[s][k].ok /\ k < maxAttempts })

\* C6 (as claimed): the delay between failed attempt n and attempt n + 1 is
\* exactly 2^n * 1000 ms for every n in 1..maxAttempts-1, with no cap; no delay
\* follows the last failed attempt, and an abandoned sequence has waited
\* 2^maxAttempts - 2 seconds in all.
C6_BackoffIsTwoToTheN ==
    \A s \in Calls :
        /\ Len(delays[s]) = Retried(s)
        /\ Len(delays[s]) <= maxAttempts - 1
        /\ \A n \in 1..Len(delays[s]) :
               /\ delays[s][n] % 1000 = 0
               /\ delays[s][n] \div 1000 = Pow2(n)
        /\ term[s] = "Abandoned" =>
               /\ Len(delays[s]) = maxAttempts - 1
               /\ SumSeq(DelaySeconds(s)) = Pow2(maxAttempts) - 2

\* C7: startRequest's promise never rejects, whatever the transport and the
\* store answer: it is pending while the delivery runs and resolved once
\* makeHttpRequest has ended, also after the attempts are exhausted.
C7_StartRequestNeverRejects ==
    \A s \in Calls :
        /\ outcome[s] # "rejected"
        /\ pc[s] = "done" => outcome[s] = "resolved"
        /\ pc[s] # "done" => outcome[s] = "pending"

\* C7 witness: a delivery was abandoned, a ledger statement of it was rejected
\* by the store, and startRequest has resolved.
C7_Witness ==
    \E s \in Calls :
        /\ term[s] = "Abandoned"
        /\ dbFailed[s]
        /\ outcome[s] = "resolved"

\* C8: the dispatches, attempt numbers and backoff delays of a delivery are
\* fixed by the transport outcomes alone, whether the store executes or rejects
\* the ledger statements: dispatch k is attempt k, only the last dispatch can have
\* succeeded, each failure below maxAttempts is followed by its delay, and the
\* delivery has ended exactly if the last dispatch succeeded or was attempt
\* maxAttempts.  No ledger helper ever rejects.
C8_LedgerFailuresDoNotChangeDelivery ==
    /\ rejected = {}
    /\ \A s \in Calls :
        LET d == dispatches[s]
        IN  /\ Len(d) <= maxAttempts
            /\ \A k \in 1..Len(d) :
                   /\ d[k].attempt = k
                   /\ k < Len(d) => ~d[k].ok
            /\ delays[s] = [ k \in 1..Retried(s) |-> sleep(Delay(k)) ]
            /\ pc[s] = "post" => attempt[s] = Len(d) + 1
            /\ pc[s] = "sleep" => attempt[s] = Len(d) /\ ~d[Len(d)].ok
            /\ pc[s] \in { "deleting", "done" } <=>
                   (Len(d) >= 1 /\ (d[Len(d)].ok \/ Len(d) = maxAttempts))

\* C8 witness: the store rejected the insert of a delivery (nothing of it is in
\* flight, no row was stored) and the delivery is making its next dispatch.
C8_Witness ==
    \E s \in Calls :
        /\ dbFailed[s]
        /\ issued[s] = << "insert" >>
        /\ StmtsOf(s) = {}
        /\ pc[s] = "post"
        /\ attempt[s] = 2

\* C9: under fairness of the transport and of the timers every delivery that
\* was started reaches a terminal state; it reaches one only (Succeeded after a
\* dispatch that succeeded, Abandoned after attempt maxAttempts failed), keeps
\* it, and makes no dispatch afterwards.
C9_EveryDeliveryTerminates ==
    /\ \A s \in Calls : Started(s) ~> (term[s] \in { "Succeeded", "Abandoned" })
    /\ [][ \A s \in Calls : term[s] # "none" =>
               /\ term'[s] = term[s]
               /\ dispatches'[s] = dispatches[s]
               /\ pc'[s] # "post" ]_vars
    /\ [](\A s \in Calls :
            LET d == dispatches[s]
            IN  /\ term[s] # "both"
                /\ term[s] = "Succeeded" => d[Len(d)].ok
                /\ term[s] = "Abandoned" => Len(d) = maxAttempts /\ ~d[Len(d)].ok)

\* C9 witness: one delivery has ended Abandoned after two failed attempts and
\* another has ended Succeeded.
C9_Witness ==
    \E s, t \in Calls :
        /\ term[s] = "Abandoned"
        /\ Len(dispatches[s]) = 2
        /\ term[t] = "Succeeded"

\* C10: with maxAttempts = 1 a first failure is followed by no retry and no
\* delay; the one statement issued is the insert of a record of the new
\* requestId with abandoned = 1 and attempt_number = 1, and neither an update
\* nor a delete is issued by the delivery (a later recovery scan may delete
\* the record).
C10_SingleAttemptInsertsAbandoned ==
    maxAttempts = 1 =>
        \A s \in Calls :
            FirstFailed(s, 1) =>
                /\ dispatches[s] = << [ attempt |-> 1, ok |-> FALSE ] >>
                /\ delays[s] = << >>
                /\ pc[s] = "done"
                /\ term[s] = "Abandoned"
                /\ issued[s] = << "insert" >>
                /\ uniqueKey[s] = generateUUID(s)
                /\ \A o \in StmtsOf(s) :
                       /\ o.op = "insert"
                       /\ o.request_id = uniqueKey[s]
                       /\ o.abandoned = 1
                       /\ o.attempt_number = 1
                /\ \A r \in RowsOf(uniqueKey[s]) :
                       r.abandoned = 1 /\ r.attempt_number = 1
                /\ (Settled(s) /\ uniqueKey[s] \notin scanDeleted) =>
                       Cardinality(RowsOf(uniqueKey[s])) = 1

\* C10 witness: maxAttempts is 1, the only dispatch failed and the store has
\* executed the insert.
C10_Witness ==
    /\ maxAttempts = 1
    /\ \E s \in Calls :
        /\ FirstFailed(s, 1)
        /\ Settled(s)
        /\ RowsOf(uniqueKey[s]) # {}


\* ------------------------------------------------------------ recovery

\* Entry k of retryLog is the first dispatch made for the row it belongs to.
FirstDispatch(k) ==
    \A j \in 1..(k - 1) : retryLog[j].rec # retryLog[k].rec

\* retryHttpRequest for row k of the scan failed at its last attempt.
Exhausted(k) ==
    \E j \in 1..Len(retryLog) :
        /\ retryLog[j].rec = k
        /\ ~retryLog[j].ok
        /\ retryLog[j].attempt >= maxAttempts

\* C11: for a stored pending record with attempt_number = n, the first dispatch
\* the recovery path makes for it is attempt n + 1.
C11_RecoveryContinuesNumbering ==
    \A k \in 1..Len(retryLog) :
        (FirstDispatch(k) /\ resumed[retryLog[k].rec].abandoned = 0) =>
            retryLog[k].attempt = resumed[retryLog[k].rec].attempt + 1

\* C12: when retryHttpRequest for a recovered pending record fails on every
\* attempt up to maxAttempts, it returns normally (it does not raise) and the
\* record of that requestId is marked abandoned with attempt_number =
\* maxAttempts.
C12_ResumedExhaustionMarksAbandoned ==
    \A k \in 1..Len(retryEnded) :
        (Exhausted(k) /\ resumed[k].abandoned = 0) =>
            /\ retryEnded[k] = "returned"
            /\ (\A o \in inflight : o.request_id # resumed[k].requestId) =>
                   \A r \in RowsOf(resumed[k].requestId) :
                       r.abandoned = 1 /\ r.attempt_number = maxAttempts

\* C13: one run of checkPendingRequests invokes retryHttpRequest exactly once
\* for every record the listing returned, in listing order, whatever the
\* outcome of the records before it.
C13_EveryListedRecordIsResumed ==
    scanPc = "done" =>
        /\ Len(resumed) = Len(scanRows)
        /\ \A k \in 1..Len(resumed) :
               resumed[k].requestId = scanRows[k].request_id

\* C15: every record that checkPendingRequests passes to retryHttpRequest has
\* abandoned = false.
C15_OnlyPendingRecordsAreResumed ==
    \A k \in 1..Len(resumed) : resumed[k].abandoned = 0


\* C14: in the recovery path, whenever a dispatch of retryHttpRequest succeeds,
\* at any attempt number, the delete of the record with that requestId is
\* issued and awaited, the record is gone once the store has executed it, and
\* retryHttpRequest makes no further dispatch for the record.
C14_RecoverySuccessDeletesRecord ==
    \A k \in 1..Len(retryLog) :
        retryLog[k].ok =>
            /\ retryLog[k].requestId \in scanDeletes
            /\ \A j \in (k + 1)..Len(retryLog) : retryLog[j].rec # retryLog[k].rec
            /\ Len(retryEnded) >= retryLog[k].rec =>
                   /\ retryEnded[retryLog[k].rec] = "returned"
                   /\ DeleteStatement(Scan, retryLog[k].requestId) \notin inflight
            /\ retryLog[k].requestId \in scanDeleted =>
                   RowsOf(retryLog[k].requestId) = {}

\* A resumed record was delivered by the first dispatch made for it, its delete
\* was executed, and the scan went on to resume a second record.
C14_Witness ==
    \E k \in 1..Len(retryLog) :
        /\ retryLog[k].ok
        /\ FirstDispatch(k)
        /\ retryLog[k].attempt = 1
        /\ retryLog[k].requestId \in scanDeleted
        /\ RowsOf(retryLog[k].requestId) = {}
        /\ Len(resumed) > retryLog[k].rec


\* C16 as stated: every record that checkPendingRequests hands to
\* retryHttpRequest has a stored attempt_number greater than 1.
C16_RecoveryNeverEnteredAtOne ==
    \A k \in 1..Len(resumed) : resumed[k].attempt > 1

\* C16, amended: a stored attempt_number is at least 1; it is exactly 1 for a
\* pending record and maxAttempts for an abandoned one, in the store and for
\* every record handed to retryHttpRequest.
C16_StoredAttemptNumbers ==
    /\ \A r \in store :
           /\ r.attempt_number >= 1
           /\ r.abandoned = 0 => r.attempt_number = 1
           /\ r.abandoned = 1 => r.attempt_number = maxAttempts
    /\ \A k \in 1..Len(resumed) :
           /\ resumed[k].attempt >= 1
           /\ resumed[k].abandoned = 0 => resumed[k].attempt = 1
           /\ resumed[k].abandoned = 1 => resumed[k].attempt = maxAttempts

\* A pending record left by a delivery that may still retry was handed to
\* retryHttpRequest with attempt 1.
C16_Witness ==
    /\ maxAttempts > 1
    /\ \E k \in 1..Len(resumed) :
           resumed[k].abandoned = 0 /\ resumed[k].attempt = 1

\* C17: the store holds at most one row per requestId; a delivery issues at
\* most one insert, at its attempt 1.
C17_OneRowPerRequestId ==
    /\ \A r1, r2 \in store : r1.request_id = r2.request_id => r1 = r2
    /\ \A s \in Calls : Issued(s, "insert") <= 1
    /\ \A o \in inflight : o.op = "insert" => o.attempt_number = 1

\* Two concurrent deliveries each have their row, and one of them is past its
\* second failed attempt.
C17_Witness ==
    \E s, t \in Calls :
        /\ s # t
        /\ uniqueKey[s] # NULL /\ RowsOf(uniqueKey[s]) # {}
        /\ uniqueKey[t] # NULL /\ RowsOf(uniqueKey[t]) # {}
        /\ Len(dispatches[s]) >= 2 /\ FirstFailed(s, 2)
        /\ Issued(s, "insert") = 1

\* C18: the attempt_number stored for a requestId never decreases: every step
\* leaves each row of a requestId with a value at least the one stored before.
C18_AttemptNumberNeverDecreases ==
    [][ \A r \in store : \A q \in store' :
            r.request_id = q.request_id => q.attempt_number >= r.attempt_number ]_vars

\* abandonAttemptRecord has overwritten the attempt_number of an inserted row
\* with a larger one.
C18_Witness ==
    \E r \in store : r.abandoned = 1 /\ r.attempt_number > 1


\* C19: every ledger statement issued by a makeHttpRequest sequence is keyed by
\* that sequence's own requestId, no two sequences share a requestId, and the
\* execution of a statement changes only rows of the statement's requestId.
C19_SequencesDoNotInterfere ==
    /\ [](/\ \A o \in inflight :
                o.seq \in Calls => o.request_id = uniqueKey[o.seq]
          /\ \A s, t \in Calls :
                (s # t /\ uniqueKey[s] # NULL) => uniqueKey[s] # uniqueKey[t])
    /\ [][ /\ (inflight \ inflight' = {}) => store' = store
           /\ \A o \in inflight \ inflight' :
                  \A r \in (store \ store') \cup (store' \ store) :
                      r.request_id = o.request_id ]_vars

\* Two concurrent sequences: the row of one was marked abandoned by its UPDATE
\* while the row of the other is still pending.
C19_Witness ==
    \E s, t \in Calls :
        /\ s # t
        /\ uniqueKey[s] # NULL /\ uniqueKey[t] # NULL
        /\ \E r \in RowsOf(uniqueKey[s]) : r.abandoned = 1 /\ r.attempt_number > 1
        /\ \E r \in RowsOf(uniqueKey[t]) : r.abandoned = 0


\* C20: one makeHttpRequest call makes at most maxAttempts dispatches, numbered
\* 1, 2, ... in steps of one, none after a successful one and exactly
\* maxAttempts when all of them fail; each dispatch posts to at most
\* |receiversUrl| receivers, so the posts of the attempts before the current
\* one and of the current one stay within maxAttempts * |receiversUrl|; the
\* requestId, once generated, is the same for every later attempt.
C20_BoundedNumberedDispatches ==
    /\ [](\A s \in Calls :
            /\ Len(dispatches[s]) <= maxAttempts
            /\ \A k \in 1..Len(dispatches[s]) :
                   /\ dispatches[s][k].attempt = k
                   /\ dispatches[s][k].ok => k = Len(dispatches[s])
            /\ Started(s) =>
                   /\ attempt[s] \in 1..maxAttempts
                   /\ Len(dispatches[s]) \in { attempt[s] - 1, attempt[s] }
                   /\ Len(contacted[s]) <= Len(receiversUrl)
                   /\ (attempt[s] - 1) * Len(receiversUrl) + Len(contacted[s])
                          <= maxAttempts * Len(receiversUrl)
            /\ (pc[s] = "done" /\ \A k \in 1..Len(dispatches[s]) : ~dispatches[s][k].ok)
                   => Len(dispatches[s]) = maxAttempts)
    /\ [][ \A s \in Calls :
               uniqueKey[s] # NULL => uniqueKey'[s] = uniqueKey[s] ]_vars

\* A call has failed at every receiver in each of its maxAttempts > 1 attempts
\* and has returned.
C20_Witness ==
    \E s \in Calls :
        /\ pc[s] = "done"
        /\ maxAttempts > 1
        /\ Len(receiversUrl) > 1
        /\ Len(dispatches[s]) = maxAttempts
        /\ FirstFailed(s, maxAttempts)
        /\ Len(contacted[s]) = Len(receiversUrl)

====
